---- MODULE Spec2Model ----
(***************************************************************************)
(* Model of the Fornjot kernel's object model: the per-type object stores  *)
(* with reserve/insert (crates/fj-kernel/src/insert.rs), HalfEdge          *)
(* validation (validate/edge.rs), the vertex transform                     *)
(* (algorithms/transform/vertex.rs) and the partial Cycle                  *)
(* (partial/objects/cycle.rs); and of its collaborators: the triangle mesh *)
(* (crates/fj-interop/src/mesh.rs), the nodes of the trapezoidation        *)
(* (fj/src/geometry/trapezoidation/nodes.rs) and the viewer's input        *)
(* handler (src/input/mod.rs).                                             *)
(*                                                                         *)
(* A Handle<T> is modelled by its identity: the index of its slot in the   *)
(* store of T.  Coordinates are small integers; every distance used by the *)
(* code is then an exact integer as well.                                  *)
(***************************************************************************)
EXTENDS Integers, Sequences, FiniteSets, TLC

VARIABLES
    store,      \* Objects: one store per entity type, a sequence of slots
    issued,     \* per type, the handles Insert::insert has returned, with the content
    errors,     \* the Vec<ValidationError> the caller passes to validation
    cache,      \* the TransformCache of the transform in progress, and its motion
    staging,    \* the partial objects, the FullToPartialCache and the caller's PartialCycle
    last,       \* the most recent call and its outcome
    mesh,       \* a fj_interop Mesh<Point<3>>, and the vertices pushed so far
    nodes,      \* the Nodes of a trapezoidation, and the ids insert_leaf returned
    handler,    \* the input Handler: rotating, moving and the zoom events
    clock       \* the Instant of the latest call to the handler

vars == <<store, issued, errors, cache, staging, last,
          mesh, nodes, handler, clock>>

\* The state of the kernel, and the state of its collaborators.
kernel == <<store, issued, errors, cache, staging>>

collaborators == <<mesh, nodes, handler, clock>>

----------------------------------------------------------------------------
(* Bounds *)

MaxObjects == 3
MaxPending == 1
MaxCoord == 1
MaxParam == 1
MaxTol == 2
MaxErrors == 3
MaxStore == 8
MaxPartials == 8
MaxCycles == 3
MaxPushes == 2
MaxLeafs == 3
MaxLeaf == 2
MaxScroll == 1
MaxEvents == 2
MaxTicks == 3
MaxDistance == 1
MaxInputs == 3

----------------------------------------------------------------------------
(* Entity types and their content *)

Types == {"GlobalVertex", "SurfaceVertex", "GlobalEdge", "HalfEdge", "Cycle"}

Unbound == [kind |-> "Unbound"]

Abs(x) == IF x < 0 THEN -x ELSE x

\* Op applied to the value of an expression that is evaluated once: let-in
\* for the results that are passed from one call to the next.
Bind(value, Op(_)) == CHOOSE r \in {Op(v) : v \in {value}} : TRUE

Min(a, b) == IF a <= b THEN a ELSE b

Max(a, b) == IF a <= b THEN b ELSE a

GlobalVertex_new(position) ==
    [kind |-> "GlobalVertex", position |-> position]

SurfaceVertex_new(position, global_form) ==
    [kind |-> "SurfaceVertex", position |-> position, global_form |-> global_form]

\* GlobalEdge keeps its two vertices in normalized order (ordered by handle).
GlobalEdge_new(a, b) ==
    [kind |-> "GlobalEdge", vertices |-> <<Min(a, b), Max(a, b)>>]

HalfEdge_new(boundary, surface_vertices, global_form) ==
    [kind |-> "HalfEdge", boundary |-> boundary,
     surface_vertices |-> surface_vertices, global_form |-> global_form]

Cycle_new(half_edges) ==
    [kind |-> "Cycle", half_edges |-> half_edges]

----------------------------------------------------------------------------
(* Store<T>: reserve, insert, read *)

Slots(st, ty) == DOMAIN st[ty]

Bound(st, ty) == {h \in Slots(st, ty) : st[ty][h] # Unbound}

\* Handle::clone shares the identity.
HandleClone(h) == h

StoreReserve(st, ty) ==
    [store |-> [st EXCEPT ![ty] = Append(@, Unbound)],
     handle |-> Len(st[ty]) + 1]

StoreInsert(st, ty, h, object) ==
    IF st[ty][h] = Unbound
    THEN [store |-> [st EXCEPT ![ty][h] = object], result |-> "Ok"]
    ELSE [store |-> st, result |-> "ReuseViolation"]

\* impl_insert! without a fresh reservation: the newest handle is used again.
ImplInsert_no_reserve(st, ty, object) ==
    LET r == IF st[ty] = <<>> THEN StoreReserve(st, ty)
             ELSE [store |-> st, handle |-> Len(st[ty])]
        i == StoreInsert(r.store, ty, HandleClone(r.handle), object)
    IN [store |-> i.store, handle |-> r.handle, bound |-> r.handle, result |-> i.result]

\* impl_insert! returning a handle other than the one it inserted under.
ImplInsert_stale_handle(st, ty, object) ==
    LET r == StoreReserve(st, ty)
        i == StoreInsert(r.store, ty, HandleClone(r.handle), object)
    IN [store |-> i.store, handle |-> 1, bound |-> r.handle, result |-> i.result]

\* impl_insert! that reserves and returns the handle but binds no content.
ImplInsert_reserve_only(st, ty, object) ==
    LET r == StoreReserve(st, ty)
    IN [store |-> r.store, handle |-> r.handle, bound |-> HandleClone(r.handle),
        result |-> "Ok"]

\* impl_insert!: reserve a handle, insert under a clone of it, return it.
ImplInsert(st, ty, object) ==
    LET r == StoreReserve(st, ty)
        handle == r.handle
        bound == HandleClone(handle)
        i == StoreInsert(r.store, ty, bound, object)
    IN [store |-> i.store, handle |-> handle, bound |-> bound, result |-> i.result]

----------------------------------------------------------------------------
(* HalfEdge validation (validate/edge.rs) *)

\* HalfEdge::start_vertex: the first of the two surface vertices.
start_vertex(st, half_edge) ==
    st["SurfaceVertex"][half_edge.surface_vertices[1]]

\* GlobalEdge::vertices().access_in_normalized_order()
access_in_normalized_order(st, half_edge) ==
    st["GlobalEdge"][half_edge.global_form].vertices

\* check_global_vertex_identity comparing the vertices by value, not by id.
check_global_vertex_identity_by_value(st, half_edge, errs) ==
    LET global_vertex_from_half_edge ==
            HandleClone(start_vertex(st, half_edge).global_form)
        global_vertices_from_global_form ==
            access_in_normalized_order(st, half_edge)
        matching_global_vertex ==
            {i \in 1..2 :
                st["GlobalVertex"][global_vertices_from_global_form[i]]
                    = st["GlobalVertex"][global_vertex_from_half_edge]}
    IN IF matching_global_vertex = {}
       THEN Append(errs,
                [kind |-> "GlobalVertexMismatch",
                 global_vertex_from_half_edge |-> global_vertex_from_half_edge,
                 global_vertices_from_global_form |-> global_vertices_from_global_form,
                 half_edge |-> half_edge])
       ELSE errs

check_global_vertex_identity(st, half_edge, errs) ==
    LET global_vertex_from_half_edge ==
            HandleClone(start_vertex(st, half_edge).global_form)
        global_vertices_from_global_form ==
            access_in_normalized_order(st, half_edge)
        matching_global_vertex ==
            {i \in 1..2 :
                global_vertices_from_global_form[i] = global_vertex_from_half_edge}
    IN IF matching_global_vertex = {}
       THEN Append(errs,
                [kind |-> "GlobalVertexMismatch",
                 global_vertex_from_half_edge |-> global_vertex_from_half_edge,
                 global_vertices_from_global_form |-> global_vertices_from_global_form,
                 half_edge |-> half_edge])
       ELSE errs

\* check_vertex_coincidence rejecting a distance equal to the tolerance too.
check_vertex_coincidence_inclusive(half_edge, config, errs) ==
    LET back_position == half_edge.boundary[1]
        front_position == half_edge.boundary[2]
        distance == Abs(back_position - front_position)
    IN IF distance <= config.distinct_min_distance
       THEN Append(errs,
                [kind |-> "VerticesAreCoincident",
                 back_position |-> back_position,
                 front_position |-> front_position,
                 distance |-> distance,
                 half_edge |-> half_edge])
       ELSE errs

check_vertex_coincidence(half_edge, config, errs) ==
    LET back_position == half_edge.boundary[1]
        front_position == half_edge.boundary[2]
        distance == Abs(back_position - front_position)
    IN IF distance < config.distinct_min_distance
       THEN Append(errs,
                [kind |-> "VerticesAreCoincident",
                 back_position |-> back_position,
                 front_position |-> front_position,
                 distance |-> distance,
                 half_edge |-> half_edge])
       ELSE errs

\* validate_with_config stopping at the first failing check.
validate_with_config_fail_fast(st, half_edge, config, errs) ==
    LET first == check_global_vertex_identity(st, half_edge, errs)
    IN IF first # errs THEN first
       ELSE check_vertex_coincidence(half_edge, config, first)

\* validate_with_config that starts from an empty list.
validate_with_config_clearing(st, half_edge, config, errs) ==
    check_vertex_coincidence(half_edge, config,
        check_global_vertex_identity(st, half_edge, <<>>))

validate_with_config(st, half_edge, config, errs) ==
    check_vertex_coincidence(half_edge, config,
        check_global_vertex_identity(st, half_edge, errs))

----------------------------------------------------------------------------
(* The calls a client of the kernel can make *)

Coords == 0..MaxCoord

Params == 0..MaxParam

Tolerances == 0..MaxTol

RECURSIVE SumLen(_, _)
SumLen(st, tys) ==
    IF tys = {} THEN 0
    ELSE LET ty == CHOOSE t \in tys : TRUE
         IN Len(st[ty]) + SumLen(st, tys \ {ty})

\* The number of slots in all stores.
Size(st) == SumLen(st, Types)

\* The reserved handles that have no content yet.
Pending(st) == {<<ty, h>> \in Types \X (1..MaxObjects) :
                    h \in Slots(st, ty) /\ st[ty][h] = Unbound}

\* The objects of type ty a caller builds from the handles it holds: a surface
\* vertex lies on the xy-plane under its global vertex, a half-edge is a line
\* segment with the boundary [0, 1].
Contents(st, ty) ==
    CASE ty = "GlobalVertex" ->
            {GlobalVertex_new(<<x, 0, 0>>) : x \in Coords}
      [] ty = "SurfaceVertex" ->
            {SurfaceVertex_new(
                <<st["GlobalVertex"][g].position[1], st["GlobalVertex"][g].position[2]>>, g) :
                g \in Bound(st, "GlobalVertex")}
      [] ty = "GlobalEdge" ->
            {GlobalEdge_new(a, b) :
                a \in Bound(st, "GlobalVertex"), b \in Bound(st, "GlobalVertex")}
      [] ty = "HalfEdge" ->
            {HalfEdge_new(<<0, 1>>, <<s1, s2>>, ge) :
                s1 \in Bound(st, "SurfaceVertex"), s2 \in Bound(st, "SurfaceVertex"),
                ge \in Bound(st, "GlobalEdge")}
      [] ty = "Cycle" ->
            {Cycle_new(<<h>>) : h \in Bound(st, "HalfEdge")}

\* Half-edges with any boundary on the curve, valid or not.
HalfEdges(st) ==
    {HalfEdge_new(<<b, f>>, <<s1, s2>>, ge) :
        b \in Params, f \in Params,
        s1 \in Bound(st, "SurfaceVertex"), s2 \in Bound(st, "SurfaceVertex"),
        ge \in Bound(st, "GlobalEdge")}

\* A TransformCache with nothing in it.
NoCache == [transform |-> [quarter_turns |-> 0, offset |-> <<0, 0, 0>>],
            map |-> [ty \in Types |-> <<>>],
            since |-> [ty \in Types |-> 0]]

\* No partial object, an empty FullToPartialCache, no PartialCycle.
NoStaging == [partials |-> <<>>,
              cache |-> [ty \in Types |-> <<>>],
              cycle |-> [source |-> 0, half_edges |-> <<>>]]

\* Mesh::new / Mesh::default, with no vertex pushed.
Mesh_new ==
    [vertices |-> <<>>, indices |-> <<>>, indices_by_vertex |-> <<>>,
     triangles |-> <<>>, pushed |-> <<>>]

\* Nodes::new, with no id returned.
Nodes_new == [map |-> <<>>, next_id |-> 0, returned |-> <<>>]

\* Handler::new
Handler_new ==
    [rotating |-> FALSE, moving |-> FALSE,
     zoom |-> [events |-> <<>>, speed |-> 0]]

\* The collaborators of the kernel as they are constructed.
NoCollaborators ==
    /\ mesh = Mesh_new
    /\ nodes = Nodes_new
    /\ handler = Handler_new
    /\ clock = 0

NoCall == [op |-> "None", ty |-> "None", handle |-> 0, bound |-> 0,
           result |-> "Ok", config |-> 0, pre |-> 0, given |-> <<>>,
           sizes |-> <<>>]

Init ==
    /\ store = [ty \in Types |-> <<>>]
    /\ issued = [ty \in Types |-> <<>>]
    /\ errors = <<>>
    /\ cache = NoCache
    /\ staging = NoStaging
    /\ last = NoCall
    /\ NoCollaborators

\* Insert::insert validating first: an invalid half-edge is refused.
Insert_validating(ty, object) ==
    /\ LET r == ImplInsert(store, ty, object)
           valid == \/ ty # "HalfEdge"
                    \/ validate_with_config(store, object,
                            [distinct_min_distance |-> 1], <<>>) = <<>>
       IN /\ store' = IF valid THEN r.store ELSE store
          /\ issued' = IF valid
                       THEN [issued EXCEPT ![ty] =
                                Append(@, [handle |-> r.handle, content |-> object])]
                       ELSE issued
          /\ last' = [NoCall EXCEPT !.op = "Insert", !.ty = ty,
                         !.handle = IF valid THEN r.handle ELSE 0,
                         !.bound = IF valid THEN r.bound ELSE 0,
                         !.result = IF valid THEN r.result ELSE "Invalid"]
    /\ UNCHANGED <<errors, cache, staging, collaborators>>

\* object.insert(&mut objects): a panic in Store::insert returns no handle.
Insert(ty, object) ==
    /\ LET r == ImplInsert(store, ty, object)
       IN /\ store' = r.store
          /\ issued' = IF r.result = "Ok"
                       THEN [issued EXCEPT ![ty] =
                                Append(@, [handle |-> r.handle, content |-> object])]
                       ELSE issued
          /\ last' = [NoCall EXCEPT !.op = "Insert", !.ty = ty,
                         !.handle = r.handle, !.bound = r.bound,
                         !.result = r.result]
    /\ UNCHANGED <<errors, cache, staging, collaborators>>

\* store.reserve(): a handle with no content bound yet.
Reserve(ty) ==
    /\ LET r == StoreReserve(store, ty)
       IN /\ store' = r.store
          /\ last' = [NoCall EXCEPT !.op = "Reserve", !.ty = ty,
                         !.handle = r.handle]
    /\ UNCHANGED <<issued, errors, cache, staging, collaborators>>

\* objects.insert(handle, object) on a handle the caller holds.
InsertReserved(ty, h, object) ==
    /\ h \in Slots(store, ty)
    /\ LET i == StoreInsert(store, ty, h, object)
       IN /\ store' = i.store
          /\ last' = [NoCall EXCEPT !.op = "InsertReserved", !.ty = ty,
                         !.handle = h, !.bound = h, !.result = i.result,
                         !.pre = IF store[ty][h] = Unbound THEN 0 ELSE 1]
    /\ UNCHANGED <<issued, errors, cache, staging, collaborators>>

\* half_edge.validate_with_config(&config, &mut errors); the caller passes
\* the list it holds or a new one.
Validate(h, t, fresh) ==
    /\ h \in Bound(store, "HalfEdge")
    /\ LET pre == IF fresh THEN <<>> ELSE errors
       IN /\ Len(pre) + 2 <= MaxErrors
          /\ errors' = validate_with_config(store, store["HalfEdge"][h],
                            [distinct_min_distance |-> t], pre)
          /\ last' = [NoCall EXCEPT !.op = "Validate", !.ty = "HalfEdge",
                         !.handle = h, !.config = t, !.pre = Len(pre),
                         !.given = pre]
    /\ UNCHANGED <<store, issued, cache, staging, collaborators>>

Next ==
    \/ \E ty \in Types : \E object \in Contents(store, ty) :
            Size(store) < MaxObjects /\ Insert(ty, object)
    \/ \E ty \in Types :
            /\ Size(store) < MaxObjects
            /\ Cardinality(Pending(store)) < MaxPending
            /\ Reserve(ty)
    \/ \E ty \in Types : \E h \in Slots(store, ty) :
            \E object \in Contents(store, ty) : InsertReserved(ty, h, object)

Spec == Init /\ [][Next]_vars

----------------------------------------------------------------------------
(* Validation of a half-edge over two global vertices at (0,0,0) and       *)
(* (e,0,0): the half-edge is built, inserted and then validated.           *)

\* Insert the objects one after the other, as a caller does.
RECURSIVE InsertAll(_, _)
InsertAll(st, objects) ==
    IF objects = <<>> THEN st
    ELSE Bind(ImplInsert(st, Head(objects).kind, Head(objects)).store,
              LAMBDA next : InsertAll(next, Tail(objects)))

\* Two global vertices, a surface vertex on each chosen one, one global edge.
Substrate(e, g1, g2, a, b) ==
    InsertAll([ty \in Types |-> <<>>],
        << GlobalVertex_new(<<0, 0, 0>>), GlobalVertex_new(<<e, 0, 0>>),
           SurfaceVertex_new(<<0, 0>>, g1), SurfaceVertex_new(<<1, 0>>, g2),
           GlobalEdge_new(a, b) >>)

InitValidate ==
    /\ \E e \in Coords : \E g1 \in 1..2 : \E g2 \in 1..2 :
            \E a \in 1..2 : \E b \in 1..2 :
                store = Substrate(e, g1, g2, a, b)
    /\ issued = [ty \in Types |-> <<>>]
    /\ errors = <<>>
    /\ cache = NoCache
    /\ staging = NoStaging
    /\ last = NoCall
    /\ NoCollaborators

NextValidate ==
    \/ \E object \in HalfEdges(store) :
            store["HalfEdge"] = <<>> /\ Insert("HalfEdge", object)
    \/ \E h \in Bound(store, "HalfEdge") : \E t \in Tolerances :
            \E fresh \in BOOLEAN : Validate(h, t, fresh)

SpecValidate == InitValidate /\ [][NextValidate]_vars

----------------------------------------------------------------------------
(* Transform with cache (algorithms/transform/vertex.rs) *)

\* A rigid motion: quarter turns about the z axis, then a translation.
RECURSIVE Rotate(_, _)
Rotate(q, p) ==
    IF q = 0 THEN p ELSE Rotate(q - 1, <<-p[2], p[1], p[3]>>)

transform_point(transform, p) ==
    LET r == Rotate(transform.quarter_turns, p)
    IN <<r[1] + transform.offset[1], r[2] + transform.offset[2],
         r[3] + transform.offset[3]>>

\* impl TransformObject for GlobalVertex
GlobalVertex_transform_with_cache(self, transform) ==
    LET position == transform_point(transform, self.position)
    IN GlobalVertex_new(position)

TransformCache_get(c, ty, h) ==
    IF h \in DOMAIN c.map[ty] THEN c.map[ty][h] ELSE 0

TransformCache_insert(c, ty, h, transformed) ==
    [c EXCEPT !.map[ty] = (h :> transformed) @@ @]

\* impl TransformObject for Handle<GlobalVertex>: the cached handle if the
\* source has been transformed, else transform, insert and remember.
Handle_GlobalVertex_transform_with_cache(h, transform, st, c) ==
    IF TransformCache_get(c, "GlobalVertex", h) # 0
    THEN [handle |-> TransformCache_get(c, "GlobalVertex", h),
          store |-> st, cache |-> c]
    ELSE LET object == GlobalVertex_transform_with_cache(
                            st["GlobalVertex"][h], transform)
             r == ImplInsert(st, "GlobalVertex", object)
         IN [handle |-> r.handle, store |-> r.store,
             cache |-> TransformCache_insert(c, "GlobalVertex", h, HandleClone(r.handle))]

\* impl TransformObject for SurfaceVertex with a new cache for the global form.
SurfaceVertex_transform_without_cache(self, transform, st, c) ==
    LET position == self.position
        g == Handle_GlobalVertex_transform_with_cache(
                HandleClone(self.global_form), transform, st,
                [c EXCEPT !.map = [ty \in Types |-> <<>>]])
    IN [object |-> SurfaceVertex_new(position, g.handle),
        store |-> g.store, cache |-> c]

\* impl TransformObject for SurfaceVertex that moves the surface position
\* as well.
SurfaceVertex_transform_position_too(self, transform, st, c) ==
    LET moved == transform_point(transform,
                    <<self.position[1], self.position[2], 0>>)
        position == <<moved[1], moved[2]>>
        g == Handle_GlobalVertex_transform_with_cache(
                HandleClone(self.global_form), transform, st, c)
    IN [object |-> SurfaceVertex_new(position, g.handle),
        store |-> g.store, cache |-> g.cache]

\* impl TransformObject for SurfaceVertex
SurfaceVertex_transform_with_cache(self, transform, st, c) ==
    LET position == self.position
        g == Handle_GlobalVertex_transform_with_cache(
                HandleClone(self.global_form), transform, st, c)
    IN [object |-> SurfaceVertex_new(position, g.handle),
        store |-> g.store, cache |-> g.cache]

\* impl TransformObject for Handle<SurfaceVertex>
Handle_SurfaceVertex_transform_with_cache(h, transform, st, c) ==
    IF TransformCache_get(c, "SurfaceVertex", h) # 0
    THEN [handle |-> TransformCache_get(c, "SurfaceVertex", h),
          store |-> st, cache |-> c]
    ELSE LET t == SurfaceVertex_transform_with_cache(
                        st["SurfaceVertex"][h], transform, st, c)
             r == ImplInsert(t.store, "SurfaceVertex", t.object)
         IN [handle |-> r.handle, store |-> r.store,
             cache |-> TransformCache_insert(t.cache, "SurfaceVertex", h,
                            HandleClone(r.handle))]

\* TransformCache::default() for a transform by the given motion; since
\* remembers the sizes of the stores at that moment.
NewCache(transform, st) ==
    [transform |-> transform,
     map |-> [ty \in Types |-> <<>>],
     since |-> [ty \in Types |-> Len(st[ty])]]

Transforms ==
    {[quarter_turns |-> q, offset |-> <<d, 0, 0>>] : q \in 0..3, d \in Coords}

\* Two global vertices and three surface vertices on them.
Vertices(x1, x2, g1, g2, g3) ==
    InsertAll([ty \in Types |-> <<>>],
        << GlobalVertex_new(<<x1, 0, 0>>), GlobalVertex_new(<<x2, 0, 0>>),
           SurfaceVertex_new(<<x1, 0>>, g1), SurfaceVertex_new(<<x2, 0>>, g2),
           SurfaceVertex_new(<<x1, x2>>, g3) >>)

InitTransform ==
    /\ \E x1 \in Coords : \E x2 \in Coords :
            \E g2 \in 1..2 : \E g3 \in 1..2 :
                store = Vertices(x1, x2, 1, g2, g3)
    /\ issued = [ty \in Types |-> <<>>]
    /\ errors = <<>>
    /\ cache = NewCache(NoCache.transform, store)
    /\ staging = NoStaging
    /\ last = NoCall
    /\ NoCollaborators

\* A top-level transform starts with a TransformCache of its own.
BeginTransform(transform) ==
    /\ cache' = NewCache(transform, store)
    /\ last' = [NoCall EXCEPT !.op = "BeginTransform"]
    /\ UNCHANGED <<store, issued, errors, staging, collaborators>>

\* handle.transform_with_cache(&transform, &mut objects, &mut cache) on a
\* surface vertex, within the transform in progress.
TransformVertex(h) ==
    /\ h \in Bound(store, "SurfaceVertex")
    /\ LET r == Handle_SurfaceVertex_transform_with_cache(
                    h, cache.transform, store, cache)
       IN /\ Size(r.store) <= MaxStore
          /\ store' = r.store
          /\ cache' = r.cache
          /\ last' = [NoCall EXCEPT !.op = "Transform", !.ty = "SurfaceVertex",
                         !.handle = h, !.bound = r.handle]
    /\ UNCHANGED <<issued, errors, staging, collaborators>>

NextTransform ==
    \/ \E transform \in Transforms : BeginTransform(transform)
    \/ \E h \in Bound(store, "SurfaceVertex") : TransformVertex(h)

SpecTransform == InitTransform /\ [][NextTransform]_vars

----------------------------------------------------------------------------
(* Partial objects (partial/objects/cycle.rs)                              *)
(*                                                                         *)
(* A Partial<T> is an index into the sequence of partial instances; two    *)
(* Partial<T> are the same instance iff their indices are equal.  Each     *)
(* instance holds the partial object and, once built, the full handle.     *)

FullToPartialCache_get(sg, ty, h) ==
    IF h \in DOMAIN sg.cache[ty] THEN sg.cache[ty][h] ELSE 0

\* A new partial instance for the full object h, entered into the cache.
Partial_new(sg, ty, h, partial) ==
    LET idx == Len(sg.partials) + 1
    IN [sg |-> [sg EXCEPT !.partials = Append(@, [partial |-> partial, full |-> 0]),
                          !.cache[ty] = (h :> idx) @@ @],
        idx |-> idx]

\* Partial::<GlobalVertex>::from_full
Partial_from_full_GlobalVertex(st, sg, h) ==
    IF FullToPartialCache_get(sg, "GlobalVertex", h) # 0
    THEN [sg |-> sg, idx |-> FullToPartialCache_get(sg, "GlobalVertex", h)]
    ELSE Partial_new(sg, "GlobalVertex", h,
            [kind |-> "GlobalVertex",
             position |-> st["GlobalVertex"][h].position])

\* Partial::<SurfaceVertex>::from_full
Partial_from_full_SurfaceVertex(st, sg, h) ==
    IF FullToPartialCache_get(sg, "SurfaceVertex", h) # 0
    THEN [sg |-> sg, idx |-> FullToPartialCache_get(sg, "SurfaceVertex", h)]
    ELSE Bind(Partial_from_full_GlobalVertex(
                    st, sg, st["SurfaceVertex"][h].global_form),
              LAMBDA g :
                Partial_new(g.sg, "SurfaceVertex", h,
                    [kind |-> "SurfaceVertex",
                     position |-> st["SurfaceVertex"][h].position,
                     global_form |-> g.idx]))

\* Partial::<GlobalEdge>::from_full
Partial_from_full_GlobalEdge(st, sg, h) ==
    IF FullToPartialCache_get(sg, "GlobalEdge", h) # 0
    THEN [sg |-> sg, idx |-> FullToPartialCache_get(sg, "GlobalEdge", h)]
    ELSE Bind(Partial_from_full_GlobalVertex(
                    st, sg, st["GlobalEdge"][h].vertices[1]),
              LAMBDA a :
         Bind(Partial_from_full_GlobalVertex(
                    st, a.sg, st["GlobalEdge"][h].vertices[2]),
              LAMBDA b :
                Partial_new(b.sg, "GlobalEdge", h,
                    [kind |-> "GlobalEdge", vertices |-> <<a.idx, b.idx>>])))

\* Partial::<HalfEdge>::from_full
Partial_from_full_HalfEdge(st, sg, h) ==
    IF FullToPartialCache_get(sg, "HalfEdge", h) # 0
    THEN [sg |-> sg, idx |-> FullToPartialCache_get(sg, "HalfEdge", h)]
    ELSE Bind(Partial_from_full_SurfaceVertex(
                    st, sg, st["HalfEdge"][h].surface_vertices[1]),
              LAMBDA s1 :
         Bind(Partial_from_full_SurfaceVertex(
                    st, s1.sg, st["HalfEdge"][h].surface_vertices[2]),
              LAMBDA s2 :
         Bind(Partial_from_full_GlobalEdge(
                    st, s2.sg, st["HalfEdge"][h].global_form),
              LAMBDA ge :
                Partial_new(ge.sg, "HalfEdge", h,
                    [kind |-> "HalfEdge",
                     boundary |-> st["HalfEdge"][h].boundary,
                     surface_vertices |-> <<s1.idx, s2.idx>>,
                     global_form |-> ge.idx]))))

\* PartialCycle::from_full with a new cache for every half-edge.
RECURSIVE PartialCycle_from_full_no_cache(_, _, _)
PartialCycle_from_full_no_cache(st, sg, half_edges) ==
    IF half_edges = <<>> THEN [sg |-> sg, half_edges |-> <<>>]
    ELSE Bind(Partial_from_full_HalfEdge(
                    st, [sg EXCEPT !.cache = [ty \in Types |-> <<>>]],
                    Head(half_edges)),
              LAMBDA first :
         Bind(PartialCycle_from_full_no_cache(st, first.sg, Tail(half_edges)),
              LAMBDA rest :
                [sg |-> [rest.sg EXCEPT !.cache = sg.cache],
                 half_edges |-> <<first.idx>> \o rest.half_edges]))

\* PartialCycle::from_full: every half-edge of the cycle, in order, with the
\* one cache.
RECURSIVE PartialCycle_from_full(_, _, _)
PartialCycle_from_full(st, sg, half_edges) ==
    IF half_edges = <<>> THEN [sg |-> sg, half_edges |-> <<>>]
    ELSE Bind(Partial_from_full_HalfEdge(st, sg, Head(half_edges)),
              LAMBDA first :
         Bind(PartialCycle_from_full(st, first.sg, Tail(half_edges)),
              LAMBDA rest :
                [sg |-> rest.sg,
                 half_edges |-> <<first.idx>> \o rest.half_edges]))

\* object.insert(objects) within a build: w holds the stores, the handles
\* returned and the partial instances.
InsertIn(w, ty, object) ==
    Bind(ImplInsert(w.store, ty, object),
         LAMBDA r :
            [w |-> [w EXCEPT !.store = r.store,
                             !.issued[ty] = Append(@, [handle |-> r.handle,
                                                       content |-> object,
                                                       at |-> Size(r.store)])],
             handle |-> r.handle])

\* The instance idx has been built as handle.
Built(r, idx) ==
    [w |-> [r.w EXCEPT !.partials[idx].full = r.handle], handle |-> r.handle]

\* Partial::<GlobalVertex>::build: the full object if the instance has been
\* built, else build, insert and remember.
Partial_build_GlobalVertex(w, idx) ==
    IF w.partials[idx].full # 0
    THEN [w |-> w, handle |-> w.partials[idx].full]
    ELSE Bind(InsertIn(w, "GlobalVertex",
                    GlobalVertex_new(w.partials[idx].partial.position)),
              LAMBDA r : Built(r, idx))

\* Partial::<SurfaceVertex>::build
Partial_build_SurfaceVertex(w, idx) ==
    IF w.partials[idx].full # 0
    THEN [w |-> w, handle |-> w.partials[idx].full]
    ELSE Bind(Partial_build_GlobalVertex(
                    w, w.partials[idx].partial.global_form),
              LAMBDA g :
         Bind(InsertIn(g.w, "SurfaceVertex",
                    SurfaceVertex_new(w.partials[idx].partial.position, g.handle)),
              LAMBDA r : Built(r, idx)))

\* Partial::<GlobalEdge>::build
Partial_build_GlobalEdge(w, idx) ==
    IF w.partials[idx].full # 0
    THEN [w |-> w, handle |-> w.partials[idx].full]
    ELSE Bind(Partial_build_GlobalVertex(
                    w, w.partials[idx].partial.vertices[1]),
              LAMBDA a :
         Bind(Partial_build_GlobalVertex(
                    a.w, w.partials[idx].partial.vertices[2]),
              LAMBDA b :
         Bind(InsertIn(b.w, "GlobalEdge", GlobalEdge_new(a.handle, b.handle)),
              LAMBDA r : Built(r, idx))))

\* Partial::<HalfEdge>::build
Partial_build_HalfEdge(w, idx) ==
    IF w.partials[idx].full # 0
    THEN [w |-> w, handle |-> w.partials[idx].full]
    ELSE Bind(Partial_build_SurfaceVertex(
                    w, w.partials[idx].partial.surface_vertices[1]),
              LAMBDA s1 :
         Bind(Partial_build_SurfaceVertex(
                    s1.w, w.partials[idx].partial.surface_vertices[2]),
              LAMBDA s2 :
         Bind(Partial_build_GlobalEdge(
                    s2.w, w.partials[idx].partial.global_form),
              LAMBDA ge :
         Bind(InsertIn(ge.w, "HalfEdge",
                    HalfEdge_new(w.partials[idx].partial.boundary,
                                 <<s1.handle, s2.handle>>, ge.handle)),
              LAMBDA r : Built(r, idx)))))

\* self.half_edges.into_iter().map(|half_edge| half_edge.build(objects))
RECURSIVE BuildHalfEdges(_, _)
BuildHalfEdges(w, half_edges) ==
    IF half_edges = <<>> THEN [w |-> w, handles |-> <<>>]
    ELSE Bind(Partial_build_HalfEdge(w, Head(half_edges)),
              LAMBDA first :
         Bind(BuildHalfEdges(first.w, Tail(half_edges)),
              LAMBDA rest :
                [w |-> rest.w, handles |-> <<first.handle>> \o rest.handles]))

\* PartialCycle::build that builds the half-edges from the last to the first.
PartialCycle_build_last_first(w, half_edges) ==
    LET Reversed(seq) == [i \in 1..Len(seq) |-> seq[Len(seq) + 1 - i]]
    IN Bind(BuildHalfEdges(w, Reversed(half_edges)),
            LAMBDA built :
                [w |-> built.w, object |-> Cycle_new(Reversed(built.handles))])

\* PartialCycle::build: build the half-edges in order, then Cycle::new.
PartialCycle_build(w, half_edges) ==
    Bind(BuildHalfEdges(w, half_edges),
         LAMBDA built : [w |-> built.w, object |-> Cycle_new(built.handles)])

\* A cycle of two half-edges over two global vertices, three surface
\* vertices and two global edges; the second half-edge starts at s, ends at
\* t and has the global form ge; the third surface vertex is on the global
\* vertex g3.
CycleOfTwo(g3, s, t, ge) ==
    InsertAll([ty \in Types |-> <<>>],
        << GlobalVertex_new(<<0, 0, 0>>), GlobalVertex_new(<<1, 0, 0>>),
           SurfaceVertex_new(<<0, 0>>, 1), SurfaceVertex_new(<<1, 0>>, 2),
           SurfaceVertex_new(<<0, 1>>, g3),
           GlobalEdge_new(1, 2), GlobalEdge_new(1, 2),
           HalfEdge_new(<<0, 1>>, <<1, 2>>, 1),
           HalfEdge_new(<<0, 1>>, <<s, t>>, ge),
           Cycle_new(<<1, 2>>) >>)

InitPartial ==
    /\ \E g3 \in 1..2 : \E s \in 2..3 : \E t \in {1, 3} : \E ge \in 1..2 :
            store = CycleOfTwo(g3, s, t, ge)
    /\ issued = [ty \in Types |-> <<>>]
    /\ errors = <<>>
    /\ cache = NoCache
    /\ staging = NoStaging
    /\ last = NoCall
    /\ NoCollaborators

\* A caller starts over with FullToPartialCache::default().
NewFullToPartialCache ==
    /\ staging.cache # NoStaging.cache
    /\ staging' = [staging EXCEPT !.cache = NoStaging.cache]
    /\ last' = [NoCall EXCEPT !.op = "NewCache"]
    /\ UNCHANGED <<store, issued, errors, cache, collaborators>>

\* PartialCycle::from_full(&cycle, &mut cache) on the cycle c.
FromFull(c) ==
    /\ c \in Bound(store, "Cycle")
    /\ Len(staging.partials) < MaxPartials
    /\ \E r \in {PartialCycle_from_full(store, staging,
                                         store["Cycle"][c].half_edges)} :
            staging' = [r.sg EXCEPT !.cycle =
                            [source |-> c, half_edges |-> r.half_edges]]
    /\ last' = [NoCall EXCEPT !.op = "FromFull", !.ty = "Cycle", !.handle = c]
    /\ UNCHANGED <<store, issued, errors, cache, collaborators>>

\* partial.write().position = Some(position) on a partial global vertex that
\* has not been built.
MoveVertex(idx, x) ==
    /\ idx \in DOMAIN staging.partials
    /\ staging.partials[idx].partial.kind = "GlobalVertex"
    /\ staging.partials[idx].full = 0
    /\ staging.partials[idx].partial.position # <<x, 0, 0>>
    /\ staging' = [staging EXCEPT !.partials[idx].partial.position = <<x, 0, 0>>]
    /\ last' = [NoCall EXCEPT !.op = "MoveVertex", !.handle = idx]
    /\ UNCHANGED <<store, issued, errors, cache, collaborators>>

\* partial_cycle.clone().build(objects).insert(objects)
BuildCycle ==
    /\ staging.cycle.half_edges # <<>>
    /\ Len(store["Cycle"]) < MaxCycles
    /\ \E b \in {PartialCycle_build(
                    [store |-> store, issued |-> issued,
                     partials |-> staging.partials],
                    staging.cycle.half_edges)} :
       \E r \in {InsertIn(b.w, "Cycle", b.object)} :
          /\ store' = r.w.store
          /\ issued' = r.w.issued
          /\ staging' = [staging EXCEPT !.partials = r.w.partials]
          /\ last' = [NoCall EXCEPT !.op = "BuildCycle", !.ty = "Cycle",
                         !.handle = r.handle,
                         !.pre = Len(store["Cycle"]),
                         !.sizes = [ty \in Types |-> Len(store[ty])]]
    /\ UNCHANGED <<errors, cache, collaborators>>

NextPartial ==
    \/ NewFullToPartialCache
    \/ \E c \in Bound(store, "Cycle") : FromFull(c)
    \/ \E idx \in DOMAIN staging.partials : \E x \in Coords : MoveVertex(idx, x)
    \/ BuildCycle

SpecPartial == InitPartial /\ [][NextPartial]_vars

----------------------------------------------------------------------------
(* The triangle mesh (crates/fj-interop/src/mesh.rs) *)

\* Point<3> is ordered by its coordinates, the first one first.
PointLess(a, b) ==
    \/ a[1] < b[1]
    \/ a[1] = b[1] /\ a[2] < b[2]
    \/ a[1] = b[1] /\ a[2] = b[2] /\ a[3] < b[3]

\* fj_math::Triangle::normalize: the same points, sorted.
normalize(triangle) ==
    CHOOSE sorted \in {<<triangle[i], triangle[j], triangle[k]>> :
                            i \in 1..3, j \in 1..3, k \in 1..3} :
        /\ {sorted[1], sorted[2], sorted[3]}
                = {triangle[1], triangle[2], triangle[3]}
        /\ PointLess(sorted[1], sorted[2])
        /\ PointLess(sorted[2], sorted[3])

\* contains_triangle comparing the points in the order they were given.
contains_triangle_as_given(m, triangle) ==
    \E i \in DOMAIN m.triangles : triangle = m.triangles[i].inner

\* Mesh::contains_triangle
contains_triangle(m, triangle) ==
    \E i \in DOMAIN m.triangles :
        normalize(triangle) = normalize(m.triangles[i].inner)

\* push_vertex that adds every vertex to the table.
push_vertex_always_new(m, vertex) ==
    LET index == Len(m.vertices)
    IN [m EXCEPT !.vertices = Append(@, vertex),
                 !.indices_by_vertex = (vertex :> index) @@ @,
                 !.indices = Append(@, index),
                 !.pushed = Append(@, vertex)]

\* Mesh::push_vertex: entry(vertex).or_insert_with(..), then indices.push.
push_vertex(m, vertex) ==
    IF vertex \in DOMAIN m.indices_by_vertex
    THEN [m EXCEPT !.indices = Append(@, m.indices_by_vertex[vertex]),
                   !.pushed = Append(@, vertex)]
    ELSE LET index == Len(m.vertices)
         IN [m EXCEPT !.vertices = Append(@, vertex),
                      !.indices_by_vertex = (vertex :> index) @@ @,
                      !.indices = Append(@, index),
                      !.pushed = Append(@, vertex)]

\* Mesh::push_triangle: the three points in the order given, then the
\* triangle with its color.
push_triangle(m, triangle, color) ==
    Bind(push_vertex(m, triangle[1]), LAMBDA m1 :
    Bind(push_vertex(m1, triangle[2]), LAMBDA m2 :
    Bind(push_vertex(m2, triangle[3]), LAMBDA m3 :
        [m3 EXCEPT !.triangles =
                Append(@, [inner |-> triangle, color |-> color])])))

\* The corners of a tetrahedron.
MeshPoints == {<<0, 0, 0>>, <<1, 0, 0>>, <<0, 1, 0>>, <<0, 0, 1>>}

\* The face of the tetrahedron on the xy-plane.
BaseFace == MeshPoints \ {<<0, 0, 1>>}

\* Every ordering of the points of one face, and two orderings of a second
\* face that shares an edge with it.
MeshTriangles ==
    {t \in BaseFace \X BaseFace \X BaseFace :
            t[1] # t[2] /\ t[2] # t[3] /\ t[1] # t[3]}
        \cup {<<<<0, 0, 0>>, <<1, 0, 0>>, <<0, 0, 1>>>>,
              <<<<0, 0, 1>>, <<1, 0, 0>>, <<0, 0, 0>>>>}

\* Color::default (red) and one other color.
Colors == {<<255, 0, 0, 255>>, <<0, 0, 255, 255>>}

\* The number of push_vertex and push_triangle calls made on the mesh.
Pushes(m) == Len(m.indices) - 2 * Len(m.triangles)

InitMesh ==
    /\ store = [ty \in Types |-> <<>>]
    /\ issued = [ty \in Types |-> <<>>]
    /\ errors = <<>>
    /\ cache = NoCache
    /\ staging = NoStaging
    /\ last = NoCall
    /\ NoCollaborators

\* mesh.push_vertex(vertex)
PushVertex(vertex) ==
    /\ Pushes(mesh) < MaxPushes
    /\ mesh' = push_vertex(mesh, vertex)
    /\ last' = [op |-> "push_vertex", vertex |-> vertex]
    /\ UNCHANGED <<kernel, nodes, handler, clock>>

\* mesh.push_triangle(triangle, color)
PushTriangle(triangle, color) ==
    /\ Pushes(mesh) < MaxPushes
    /\ mesh' = push_triangle(mesh, triangle, color)
    /\ last' = [op |-> "push_triangle", triangle |-> triangle, color |-> color]
    /\ UNCHANGED <<kernel, nodes, handler, clock>>

\* mesh.contains_triangle(triangle)
ContainsTriangle(triangle) ==
    /\ last' = [op |-> "contains_triangle", triangle |-> triangle,
                result |-> contains_triangle(mesh, triangle)]
    /\ UNCHANGED <<kernel, collaborators>>

NextMesh ==
    \/ \E vertex \in MeshPoints : PushVertex(vertex)
    \/ \E triangle \in MeshTriangles : \E color \in Colors :
            PushTriangle(triangle, color)
    \/ \E triangle \in MeshTriangles : ContainsTriangle(triangle)

SpecMesh == InitMesh /\ [][NextMesh]_vars

----------------------------------------------------------------------------
(* The nodes of a trapezoidation (fj/src/geometry/trapezoidation/nodes.rs) *)

\* Option<GenericId>::None
None == [kind |-> "None"]

\* Node::Leaf(LeafNode { parent: None, leaf })
LeafNode_new(leaf) == [kind |-> "Leaf", parent |-> None, leaf |-> leaf]

\* insert_leaf that does not advance next_id.
insert_leaf_same_id(n, leaf) ==
    LET id == n.next_id
    IN [nodes |-> [n EXCEPT !.map = (id :> LeafNode_new(leaf)) @@
                                        [k \in DOMAIN @ \ {id} |-> @[k]],
                            !.returned = Append(@, [id |-> id, leaf |-> leaf])],
        id |-> id]

\* Nodes::insert_leaf: the id is next_id, which is advanced; HashMap::insert
\* puts the leaf node under the id.
insert_leaf(n, leaf) ==
    LET id == n.next_id
    IN [nodes |-> [n EXCEPT !.next_id = @ + 1,
                            !.map = (id :> LeafNode_new(leaf)) @@
                                        [k \in DOMAIN @ \ {id} |-> @[k]],
                            !.returned = Append(@, [id |-> id, leaf |-> leaf])],
        id |-> id]

\* Nodes::get and Nodes::get_mut: map.get(&id).unwrap()
get(n, id) ==
    IF id \in DOMAIN n.map THEN [result |-> "Ok", node |-> n.map[id]]
    ELSE [result |-> "Panic", node |-> None]

\* leafs that stops after the first leaf.
leafs_first_only(n) ==
    IF DOMAIN n.map = {} THEN {}
    ELSE LET id == CHOOSE k \in DOMAIN n.map : n.map[k].kind = "Leaf"
         IN {<<id, n.map[id].leaf>>}

\* Nodes::leafs: the (id, leaf) pairs of the leaf nodes of the map.
leafs(n) ==
    {<<id, n.map[id].leaf>> : id \in {k \in DOMAIN n.map : n.map[k].kind = "Leaf"}}

LeafValues == 0..MaxLeaf

InitNodes ==
    /\ store = [ty \in Types |-> <<>>]
    /\ issued = [ty \in Types |-> <<>>]
    /\ errors = <<>>
    /\ cache = NoCache
    /\ staging = NoStaging
    /\ last = NoCall
    /\ NoCollaborators

\* let id = nodes.insert_leaf(leaf)
InsertLeaf(leaf) ==
    /\ Len(nodes.returned) < MaxLeafs
    /\ \E r \in {insert_leaf(nodes, leaf)} :
          /\ nodes' = r.nodes
          /\ last' = [op |-> "insert_leaf", id |-> r.id, leaf |-> leaf]
    /\ UNCHANGED <<kernel, mesh, handler, clock>>

\* nodes.get(id) or nodes.get_mut(id) with an id that insert_leaf returned.
Get(op, i) ==
    /\ i \in DOMAIN nodes.returned
    /\ \E r \in {get(nodes, nodes.returned[i].id)} :
          last' = [op |-> op, id |-> nodes.returned[i].id, call |-> i,
                   result |-> r.result, node |-> r.node]
    /\ UNCHANGED <<kernel, collaborators>>

\* nodes.leafs().collect()
Leafs ==
    /\ last' = [op |-> "leafs", pairs |-> leafs(nodes)]
    /\ UNCHANGED <<kernel, collaborators>>

NextNodes ==
    \/ \E leaf \in LeafValues : InsertLeaf(leaf)
    \/ \E op \in {"get", "get_mut"} : \E i \in DOMAIN nodes.returned : Get(op, i)
    \/ Leafs

SpecNodes == InitNodes /\ [][NextNodes]_vars

----------------------------------------------------------------------------
(* The zoom input of the viewer (src/input/mod.rs) *)

\* An f32 is its sign bit and its magnitude, in tenths: 0.0 and -0.0 differ
\* in the sign bit only.
Float(neg, mag) == [neg |-> neg, mag |-> mag]

\* f32::signum: 1.0 for a number with a clear sign bit (0.0 too), -1.0 for a
\* number with the sign bit set (-0.0 too).
signum(f) == IF f.neg THEN -1 ELSE 1

\* The number a float stands for, in tenths.
Value(f) == IF f.neg THEN -f.mag ELSE f.mag

\* The length of one tick of the clock in milliseconds.
TickMillis == 250

ZOOM_INPUT_WINDOW == 500

\* now.duration_since(time), in milliseconds; zero if time is later than now.
duration_since(now, time) ==
    IF now >= time THEN (now - time) * TickMillis ELSE 0

\* The delta of a wheel input: y * 10.0 for a LineDelta, y for a PixelDelta;
\* new_event = delta * 0.1, which in tenths is the delta itself.
new_event_of(delta) ==
    LET d == IF delta.kind = "LineDelta"
             THEN Float(delta.y.neg, delta.y.mag * 10)
             ELSE delta.y
    IN d

\* handle_mouse_wheel that only compares with the newest pending event and
\* keeps the new input after a reversal.
handle_mouse_wheel_restart(h, delta, now) ==
    LET new_event == new_event_of(delta)
        events == h.zoom.events
    IN IF events # <<>> /\ signum(events[1].event) # signum(new_event)
       THEN [h EXCEPT !.zoom.events = <<[time |-> now, event |-> new_event]>>]
       ELSE [h EXCEPT !.zoom.events =
                    Append(@, [time |-> now, event |-> new_event])]

\* handle_mouse_wheel that queues the event whatever its sign.
handle_mouse_wheel_unchecked(h, delta, now) ==
    [h EXCEPT !.zoom.events =
        Append(@, [time |-> now, event |-> new_event_of(delta)])]

\* Handler::handle_mouse_wheel
handle_mouse_wheel(h, delta, now) ==
    LET new_event == new_event_of(delta)
        events == h.zoom.events
    IN IF events # <<>> /\ signum(events[1].event) # signum(new_event)
       THEN [h EXCEPT !.zoom.events = <<>>]
       ELSE [h EXCEPT !.zoom.events =
                    Append(@, [time |-> now, event |-> new_event])]

\* The loop of update when it always leaves the last event in the queue.
RECURSIVE DiscardOld_but_last(_, _)
DiscardOld_but_last(events, now) ==
    IF Len(events) > 1
       /\ duration_since(now, events[1].time) > ZOOM_INPUT_WINDOW
    THEN DiscardOld_but_last(Tail(events), now)
    ELSE events

\* while let Some((time, _)) = events.front(): pop the front while it is out
\* of the zoom input window.
RECURSIVE DiscardOld(_, _)
DiscardOld(events, now) ==
    IF events # <<>> /\ duration_since(now, events[1].time) > ZOOM_INPUT_WINDOW
    THEN DiscardOld(Tail(events), now)
    ELSE events

\* events.iter().map(|(_, event)| event).sum()
RECURSIVE SumOfEvents(_)
SumOfEvents(events) ==
    IF events = <<>> THEN 0
    ELSE Value(events[1].event) + SumOfEvents(Tail(events))

\* update that discards at most one event.
update_discard_one(h, now, transform) ==
    LET old == h.zoom.events
        events == IF old # <<>>
                     /\ duration_since(now, old[1].time) > ZOOM_INPUT_WINDOW
                  THEN Tail(old) ELSE old
        speed == SumOfEvents(events)
    IN [handler |-> [h EXCEPT !.zoom.events = events, !.zoom.speed = speed],
        transform |-> [transform EXCEPT !.distance = @ + speed]]

\* Handler::update: the handler and the transform after the call.
update(h, now, transform) ==
    LET events == DiscardOld(h.zoom.events, now)
        speed == SumOfEvents(events)
    IN [handler |-> [h EXCEPT !.zoom.events = events, !.zoom.speed = speed],
        transform |-> [transform EXCEPT !.distance = @ + speed]]

\* The wheel inputs: lines or pixels, of either sign, zero included.
WheelDeltas ==
    {[kind |-> k, y |-> Float(neg, mag)] :
        k \in {"LineDelta", "PixelDelta"}, neg \in BOOLEAN, mag \in 0..MaxScroll}

\* The Instants a caller can pass next: the clock does not go back.
Instants == {t \in clock..(clock + 1) : t <= MaxTicks}

\* The Instant of the most recent call of handle_mouse_wheel, if any: kept
\* with the record of the last call.
LastWheel == IF "wheel" \in DOMAIN last THEN last.wheel ELSE <<>>

InitZoom ==
    /\ store = [ty \in Types |-> <<>>]
    /\ issued = [ty \in Types |-> <<>>]
    /\ errors = <<>>
    /\ cache = NoCache
    /\ staging = NoStaging
    /\ last = NoCall
    /\ NoCollaborators

\* handler.handle_mouse_wheel(delta, now)
HandleMouseWheel(delta, now) ==
    /\ \E h \in {handle_mouse_wheel(handler, delta, now)} :
          /\ Len(h.zoom.events) <= MaxEvents
          /\ handler' = h
    /\ clock' = now
    /\ last' = [op |-> "handle_mouse_wheel", delta |-> delta,
                pending |-> Len(handler.zoom.events), wheel |-> <<now>>]
    /\ UNCHANGED <<kernel, mesh, nodes>>

\* The transforms a caller can pass to update.
CameraTransforms == {[distance |-> d] : d \in 0..MaxDistance}

\* handler.update(delta_t, now, &mut transform): the call leaves the
\* caller's transform as after.
Update(now, transform) ==
    /\ \E r \in {update(handler, now, transform)} :
          /\ handler' = r.handler
          /\ last' = [op |-> "update", before |-> transform,
                      after |-> r.transform,
                      pending |-> Len(handler.zoom.events),
                      wheel |-> LastWheel]
    /\ clock' = now
    /\ UNCHANGED <<kernel, mesh, nodes>>

NextZoom ==
    \/ \E delta \in WheelDeltas : \E now \in Instants : HandleMouseWheel(delta, now)
    \/ \E now \in Instants : \E transform \in CameraTransforms :
            Update(now, transform)

SpecZoom == InitZoom /\ [][NextZoom]_vars

\* The event loop with a frame clock: wheel input arrives up to MaxTicks,
\* and update is called every frame with the Instant of the frame, until
\* the zoom input window has passed after the last possible input.
Horizon == MaxTicks + (ZOOM_INPUT_WINDOW \div TickMillis) + 1

\* The input of a mouse wheel: scrolled lines.
WheelLines == {delta \in WheelDeltas : delta.kind = "LineDelta"}

Frames == {t \in clock..(clock + 1) : t <= Horizon}

NextFrame == \E transform \in CameraTransforms : Update(clock + 1, transform)

NextZoomLive ==
    \/ \E delta \in WheelLines : \E now \in Instants :
            HandleMouseWheel(delta, now)
    \/ \E now \in Frames : \E transform \in CameraTransforms :
            Update(now, transform)

SpecZoomLive ==
    /\ InitZoom
    /\ [][NextZoomLive]_vars
    /\ WF_vars(clock < Horizon /\ NextFrame)

\* winit's MouseButton and ElementState.
MouseButtons == {"Left", "Right", "Middle", "Other"}

ElementStates == {"Pressed", "Released"}

\* handle_mouse_input when releasing any button ends both movements.
handle_mouse_input_release_all(h, button, state) ==
    CASE button = "Left" /\ state = "Pressed" -> [h EXCEPT !.rotating = TRUE]
      [] button = "Right" /\ state = "Pressed" -> [h EXCEPT !.moving = TRUE]
      [] state = "Released" -> [h EXCEPT !.rotating = FALSE, !.moving = FALSE]
      [] OTHER -> h

\* Handler::handle_mouse_input
handle_mouse_input(h, button, state) ==
    CASE button = "Left" /\ state = "Pressed" -> [h EXCEPT !.rotating = TRUE]
      [] button = "Left" /\ state = "Released" -> [h EXCEPT !.rotating = FALSE]
      [] button = "Right" /\ state = "Pressed" -> [h EXCEPT !.moving = TRUE]
      [] button = "Right" /\ state = "Released" -> [h EXCEPT !.moving = FALSE]
      [] OTHER -> h

\* A new Handler that has received no input.
InitMouse == InitZoom

\* handler.handle_mouse_input(button, state): the call keeps the events
\* received so far and the handler it found.
HandleMouseInput(button, state) ==
    /\ Len(last.given) < MaxInputs
    /\ handler' = handle_mouse_input(handler, button, state)
    /\ last' = [op |-> "handle_mouse_input", pre |-> handler,
                given |-> Append(last.given,
                                 [button |-> button, state |-> state])]
    /\ UNCHANGED <<kernel, mesh, nodes, clock>>

NextMouse ==
    \E button \in MouseButtons : \E state \in ElementStates :
        HandleMouseInput(button, state)

SpecMouse == InitMouse /\ [][NextMouse]_vars

----------------------------------------------------------------------------
(* Properties of the object stores *)

\* C1: Insert::insert (reserve, then insert on the reserved handle) never
\* fails, for every entity type; an insert on a reserved handle with no content
\* succeeds, and an insert on a handle that already has content is rejected
\* and binds nothing.
C1_InsertAfterReserveSucceeds ==
    /\ last.op = "Insert" =>
            /\ last.result = "Ok"
            /\ store[last.ty][last.handle] # Unbound
    /\ last.op = "InsertReserved" =>
            /\ last.pre = 0 => last.result = "Ok"
            /\ last.pre = 1 => last.result = "ReuseViolation"

C1_Witness ==
    /\ last.op = "InsertReserved"
    /\ last.pre = 1
    /\ last.result = "ReuseViolation"
    /\ \E h \in DOMAIN issued[last.ty] : issued[last.ty][h].handle = last.handle

\* C2: the handles Insert::insert has returned for one entity type are
\* pairwise different, whatever content was inserted, and the clone the object
\* was inserted under is equal to the handle returned.
C2_IdentityNeverReused ==
    /\ \A ty \in Types : \A i \in DOMAIN issued[ty] : \A j \in DOMAIN issued[ty] :
            i # j => issued[ty][i].handle # issued[ty][j].handle
    /\ last.op = "Insert" => last.bound = last.handle

C2_Witness ==
    \E ty \in Types : \E i \in DOMAIN issued[ty] : \E j \in DOMAIN issued[ty] :
        /\ i < j
        /\ issued[ty][i].content = issued[ty][j].content
        /\ issued[ty][i].handle # issued[ty][j].handle

\* What a step keeps: the content of every handle that has content.
BoundContentKept ==
    \A ty \in Types : \A h \in Bound(store, ty) : store'[ty][h] = store[ty][h]

\* What Insert::insert has returned still reads as what was inserted.
IssuedContentKept ==
    \A ty \in Types : \A i \in DOMAIN issued[ty] :
        store[ty][issued[ty][i].handle] = issued[ty][i].content

\* C3: the store is append-only: the content read through a handle that
\* Insert::insert returned is the content it was inserted with, and no later
\* call changes the content bound to any handle.
C3_AppendOnly ==
    /\ [] IssuedContentKept
    /\ [][BoundContentKept]_vars

\* A handle returned earlier, and a later insert of other content.
C3_Witness ==
    /\ last.op \in {"Insert", "InsertReserved"}
    /\ \E i \in DOMAIN issued[last.ty] :
          /\ issued[last.ty][i].handle < Len(store[last.ty])
          /\ store[last.ty][Len(store[last.ty])] # issued[last.ty][i].content
          /\ store[last.ty][Len(store[last.ty])] # Unbound

\* The handles an object holds, as pairs of type and identity.
References(object) ==
    CASE object.kind = "SurfaceVertex" -> {<<"GlobalVertex", object.global_form>>}
      [] object.kind = "GlobalEdge" ->
            {<<"GlobalVertex", object.vertices[i]>> : i \in 1..2}
      [] object.kind = "HalfEdge" ->
            {<<"SurfaceVertex", object.surface_vertices[i]>> : i \in 1..2}
                \cup {<<"GlobalEdge", object.global_form>>}
      [] object.kind = "Cycle" ->
            {<<"HalfEdge", object.half_edges[i]>> : i \in DOMAIN object.half_edges}
      [] OTHER -> {}

\* Every handle Insert::insert returned reads as a bound object, and so does
\* every handle that object holds.
IssuedFullyLinked ==
    \A ty \in Types : \A i \in DOMAIN issued[ty] :
        /\ issued[ty][i].handle \in Bound(store, ty)
        /\ \A ref \in References(store[ty][issued[ty][i].handle]) :
                ref[2] \in Bound(store, ref[1])

\* A call that fails leaves the stores as they were, and only an explicit
\* reserve leaves an identity without content.
NoPartialCommit ==
    /\ last'.result # "Ok" => store' = store /\ issued' = issued
    /\ last'.op # "Reserve" => Pending(store') \subseteq Pending(store)

----------------------------------------------------------------------------
(* Properties of HalfEdge validation *)

\* The half-edge of the latest validation and the errors that call appended.
Validated == store["HalfEdge"][last.handle]

NewErrors == SubSeq(errors, last.pre + 1, Len(errors))

Reported(kind) == \E i \in DOMAIN NewErrors : NewErrors[i].kind = kind

StartGlobalVertex ==
    store["SurfaceVertex"][Validated.surface_vertices[1]].global_form

EdgeGlobalVertices == store["GlobalEdge"][Validated.global_form].vertices

IdentityMismatch ==
    /\ StartGlobalVertex # EdgeGlobalVertices[1]
    /\ StartGlobalVertex # EdgeGlobalVertices[2]

BoundaryDistance == Abs(Validated.boundary[1] - Validated.boundary[2])

\* C4: validation reports GlobalVertexMismatch exactly when the identity of
\* the start vertex's global form is the identity of neither GlobalVertex of
\* the half-edge's GlobalEdge, whatever the positions of the vertices are.
C4_MismatchIffIdentityDiffers ==
    last.op = "Validate" =>
        (Reported("GlobalVertexMismatch") <=> IdentityMismatch)

\* A value-equal but distinct global vertex is reported.
C4_Witness ==
    /\ last.op = "Validate"
    /\ Reported("GlobalVertexMismatch")
    /\ \E i \in 1..2 :
          store["GlobalVertex"][EdgeGlobalVertices[i]]
              = store["GlobalVertex"][StartGlobalVertex]

\* C5: validation reports VerticesAreCoincident exactly when the distance of
\* the two boundary positions is strictly less than distinct_min_distance: a
\* distance equal to the tolerance is accepted, identical positions are
\* rejected for every positive tolerance.
C5_CoincidentIffBelowTolerance ==
    last.op = "Validate" =>
        /\ Reported("VerticesAreCoincident") <=> BoundaryDistance < last.config
        /\ BoundaryDistance = last.config => ~Reported("VerticesAreCoincident")
        /\ (Validated.boundary[1] = Validated.boundary[2] /\ last.config > 0)
                => Reported("VerticesAreCoincident")

\* A distance equal to a positive tolerance is accepted.
C5_Witness ==
    /\ last.op = "Validate"
    /\ last.config > 0
    /\ BoundaryDistance = last.config
    /\ ~Reported("VerticesAreCoincident")

\* The global vertices the validated half-edge references.
ReferencedGlobalVertices ==
    {store["SurfaceVertex"][Validated.surface_vertices[i]].global_form : i \in 1..2}
        \cup {EdgeGlobalVertices[i] : i \in 1..2}

\* The distance of the global vertices 1 at (0,0,0) and 2 at (e,0,0).
GlobalVertexDistance ==
    Abs(store["GlobalVertex"][1].position[1] - store["GlobalVertex"][2].position[1])

\* C6: for a half-edge that references the global vertices at (0,0,0) and
\* (e,0,0), validation with tolerance t reports a coincidence error exactly
\* when e < t.
C6_CoincidentIffGlobalVerticesClose ==
    (last.op = "Validate" /\ ReferencedGlobalVertices = {1, 2}) =>
        (Reported("VerticesAreCoincident") <=> GlobalVertexDistance < last.config)

\* C7: one validation runs both checks: it appends a mismatch error if the
\* identities differ, then a coincidence error if the boundary is degenerate,
\* and nothing else.
C7_AllFailingChecksCollected ==
    last.op = "Validate" =>
        LET m == IF IdentityMismatch THEN 1 ELSE 0
            c == IF BoundaryDistance < last.config THEN 1 ELSE 0
        IN /\ Len(NewErrors) = m + c
           /\ m = 1 => NewErrors[1].kind = "GlobalVertexMismatch"
           /\ c = 1 => NewErrors[m + 1].kind = "VerticesAreCoincident"

C7_Witness ==
    /\ last.op = "Validate"
    /\ Len(NewErrors) = 2
    /\ NewErrors[1].kind = "GlobalVertexMismatch"
    /\ NewErrors[2].kind = "VerticesAreCoincident"

\* A validation changes nothing but the list: the list it was given is the
\* head of the list it leaves.
ValidationOnlyAppends ==
    last'.op = "Validate" =>
        /\ store' = store
        /\ issued' = issued
        /\ Len(errors') >= Len(last'.given)
        /\ SubSeq(errors', 1, Len(last'.given)) = last'.given

\* C13: validate_with_config leaves the validated half-edge, the objects it
\* references and the stores unchanged; it only appends to the error list it
\* is given, whose earlier errors stay in place and in order.
C13_ValidationNeverMutates == [][ValidationOnlyAppends]_vars

\* A validation has appended to a list that held errors of an earlier one.
C13_Witness ==
    /\ last.op = "Validate"
    /\ last.given # <<>>
    /\ Len(errors) > Len(last.given)
    /\ SubSeq(errors, 1, Len(last.given)) = last.given

\* The errors a validation of the half-edge h with tolerance 1 would report.
Defects(h) ==
    validate_with_config(store, store["HalfEdge"][h],
        [distinct_min_distance |-> 1], <<>>)

\* C11: insertion and validation are decoupled: Insert::insert binds the
\* half-edge and returns a live handle whether or not the half-edge passes
\* validation, and reports nothing; errors appear only when a caller
\* validates, and the store then still holds the invalid half-edge.
C11_InsertDoesNotValidate ==
    /\ (last.op = "Insert" /\ last.ty = "HalfEdge") =>
            /\ last.result = "Ok"
            /\ last.handle \in Bound(store, "HalfEdge")
            /\ issued["HalfEdge"][Len(issued["HalfEdge"])].handle = last.handle
            /\ store["HalfEdge"][last.handle]
                    = issued["HalfEdge"][Len(issued["HalfEdge"])].content
            /\ errors = <<>>
    /\ errors # <<>> => last.op = "Validate"
    /\ last.op = "Validate" => last.handle \in Bound(store, "HalfEdge")

\* A half-edge with a degenerate boundary and a mismatched global vertex has
\* been inserted.
C11_Witness ==
    /\ last.op = "Insert"
    /\ last.ty = "HalfEdge"
    /\ last.result = "Ok"
    /\ last.handle \in Bound(store, "HalfEdge")
    /\ Len(Defects(last.handle)) = 2

----------------------------------------------------------------------------
(* Properties of the transform *)

\* The surface vertices transformed under the cache in progress.
TransformedSources == DOMAIN cache.map["SurfaceVertex"]

TransformedVertex(h) == store["SurfaceVertex"][cache.map["SurfaceVertex"][h]]

\* C8: under one TransformCache every source object is transformed once: the
\* transformed parents of one GlobalVertex identity all reference one new
\* GlobalVertex identity, the one the cache holds for it, and the transform
\* has inserted one GlobalVertex per distinct source and no more.
C8_OneTransformedCopyPerSource ==
    /\ \A a \in TransformedSources : \A b \in TransformedSources :
            store["SurfaceVertex"][a].global_form = store["SurfaceVertex"][b].global_form
                => TransformedVertex(a).global_form = TransformedVertex(b).global_form
    /\ \A a \in TransformedSources :
            /\ store["SurfaceVertex"][a].global_form \in DOMAIN cache.map["GlobalVertex"]
            /\ TransformedVertex(a).global_form
                    = cache.map["GlobalVertex"][store["SurfaceVertex"][a].global_form]
    /\ \A ty \in {"GlobalVertex", "SurfaceVertex"} :
            Len(store[ty]) - cache.since[ty] = Cardinality(DOMAIN cache.map[ty])

\* Two parents of one global vertex have been transformed.
C8_Witness ==
    \E a \in TransformedSources : \E b \in TransformedSources :
        /\ a # b
        /\ store["SurfaceVertex"][a].global_form = store["SurfaceVertex"][b].global_form
        /\ TransformedVertex(a).global_form = TransformedVertex(b).global_form
        /\ TransformedVertex(a).global_form # store["SurfaceVertex"][a].global_form

\* The surface vertex the latest transform was applied to, and its result.
SourceVertex == store["SurfaceVertex"][last.handle]

ResultVertex == store["SurfaceVertex"][last.bound]

\* The motion of the transform in progress applied to the point p: q quarter
\* turns about the z axis take (x, y, z) to (x, y, z), (-y, x, z), (-x, -y, z)
\* or (y, -x, z); the offset is added after.
MotionApplied(p) ==
    LET q == cache.transform.quarter_turns
        o == cache.transform.offset
        x == CASE q = 0 -> p[1] [] q = 1 -> -p[2] [] q = 2 -> -p[1] [] q = 3 -> p[2]
        y == CASE q = 0 -> p[2] [] q = 1 -> p[1] [] q = 2 -> -p[2] [] q = 3 -> -p[1]
    IN <<x + o[1], y + o[2], p[3] + o[3]>>

\* C14: the transform of a SurfaceVertex has the 2D position of the source,
\* for every motion; its global form is the transform of the source's global
\* form (the handle the cache holds for it), and the position of that
\* GlobalVertex is the motion applied to the source GlobalVertex's position.
C14_TransformKeepsSurfacePosition ==
    last.op = "Transform" =>
        /\ ResultVertex.position = SourceVertex.position
        /\ ResultVertex.global_form
                = TransformCache_get(cache, "GlobalVertex", SourceVertex.global_form)
        /\ store["GlobalVertex"][ResultVertex.global_form].position
                = MotionApplied(store["GlobalVertex"][SourceVertex.global_form].position)

\* A surface vertex away from the origin under a turn and a translation: the
\* global vertex has moved, the surface position has not.
C14_Witness ==
    /\ last.op = "Transform"
    /\ cache.transform.quarter_turns = 1
    /\ cache.transform.offset # <<0, 0, 0>>
    /\ SourceVertex.position # <<0, 0>>
    /\ ResultVertex.position = SourceVertex.position
    /\ store["GlobalVertex"][SourceVertex.global_form].position # <<0, 0, 0>>
    /\ store["GlobalVertex"][ResultVertex.global_form].position
            # store["GlobalVertex"][SourceVertex.global_form].position

----------------------------------------------------------------------------
(* Properties of the mesh *)

\* The set of the three points of a triangle.
PointSet(triangle) == {triangle[1], triangle[2], triangle[3]}

\* Some triangle pushed so far has the points of the given one.
PushedWithPointsOf(triangle) ==
    \E i \in DOMAIN mesh.triangles :
        PointSet(mesh.triangles[i].inner) = PointSet(triangle)

\* C15: contains_triangle(t) is true exactly when a triangle pushed before
\* has the same set of three points as t, whatever the order of the points of
\* either triangle and whatever the pushed triangle's color; it is false on a
\* mesh with no triangle.
C15_ContainsIffSamePointSet ==
    /\ last.op = "contains_triangle" =>
            /\ last.result <=> PushedWithPointsOf(last.triangle)
            /\ mesh.triangles = <<>> => ~last.result
    /\ \A t \in MeshTriangles :
            contains_triangle(mesh, t) <=> PushedWithPointsOf(t)

\* A triangle is found through another ordering of its points, pushed in a
\* color that is not the default, next to a triangle on other points.
C15_Witness ==
    /\ last.op = "contains_triangle"
    /\ last.result
    /\ Len(mesh.triangles) = 2
    /\ \E i \in DOMAIN mesh.triangles :
          /\ PointSet(mesh.triangles[i].inner) = PointSet(last.triangle)
          /\ mesh.triangles[i].inner # last.triangle
          /\ mesh.triangles[i].inner[1] # last.triangle[1]
          /\ mesh.triangles[i].color # <<255, 0, 0, 255>>
    /\ \E i \in DOMAIN mesh.triangles :
          PointSet(mesh.triangles[i].inner) # PointSet(last.triangle)

\* The vertices of a sequence, each once, in the order of first occurrence.
RECURSIVE FirstOccurrences(_)
FirstOccurrences(seq) ==
    IF seq = <<>> THEN <<>>
    ELSE LET front == FirstOccurrences(SubSeq(seq, 1, Len(seq) - 1))
             v == seq[Len(seq)]
         IN IF \E i \in DOMAIN front : front[i] = v THEN front
            ELSE Append(front, v)

\* C16: the vertex table holds every distinct pushed vertex once, in the
\* order of the first push; the index list has one entry per pushed vertex,
\* and entry i is the position in the table (counted from 0) of the i-th
\* pushed vertex, so every index is in range.
C16_VertexTableDeduplicates ==
    /\ mesh.vertices = FirstOccurrences(mesh.pushed)
    /\ \A i \in DOMAIN mesh.vertices : \A j \in DOMAIN mesh.vertices :
            mesh.vertices[i] = mesh.vertices[j] => i = j
    /\ Len(mesh.indices) = Len(mesh.pushed)
    /\ \A i \in DOMAIN mesh.indices :
            /\ mesh.indices[i] \in 0..(Len(mesh.vertices) - 1)
            /\ mesh.vertices[mesh.indices[i] + 1] = mesh.pushed[i]

\* A vertex pushed alone and again as a point of a triangle.
C16_Witness ==
    /\ mesh.triangles # <<>>
    /\ Len(mesh.pushed) > 3 * Len(mesh.triangles)
    /\ Len(mesh.vertices) < Len(mesh.pushed)
    /\ Len(mesh.vertices) = 3
    /\ \E i \in DOMAIN mesh.indices : \E j \in DOMAIN mesh.indices :
          i < j /\ mesh.indices[i] = mesh.indices[j]

----------------------------------------------------------------------------
(* Properties of the trapezoidation nodes *)

\* C17: the ids insert_leaf has returned are pairwise different, and get and
\* get_mut with any of them, after any number of later inserts, do not fail
\* and give the leaf node with the leaf that was inserted and no parent.
C17_IdsDistinctAndAlwaysValid ==
    /\ \A i \in DOMAIN nodes.returned : \A j \in DOMAIN nodes.returned :
            i # j => nodes.returned[i].id # nodes.returned[j].id
    /\ \A i \in DOMAIN nodes.returned :
            get(nodes, nodes.returned[i].id)
                = [result |-> "Ok", node |-> LeafNode_new(nodes.returned[i].leaf)]
    /\ last.op \in {"get", "get_mut"} =>
            /\ last.result = "Ok"
            /\ last.node = [kind |-> "Leaf", parent |-> None,
                            leaf |-> nodes.returned[last.call].leaf]

\* The first id is read after two later inserts, one of them of an equal
\* leaf.
C17_Witness ==
    /\ last.op = "get_mut"
    /\ last.call = 1
    /\ Len(nodes.returned) = 3
    /\ nodes.returned[3].leaf = nodes.returned[1].leaf
    /\ nodes.returned[2].leaf # nodes.returned[1].leaf
    /\ last.result = "Ok"

\* C18: leafs() yields one (id, leaf) pair per inserted leaf: the pairs of
\* the id insert_leaf returned and the leaf it was given, and no other pair.
C18_LeafsReturnsAllLeaves ==
    /\ leafs(nodes) = {<<nodes.returned[i].id, nodes.returned[i].leaf>> :
                            i \in DOMAIN nodes.returned}
    /\ Cardinality(leafs(nodes)) = Len(nodes.returned)
    /\ last.op = "leafs" =>
            /\ last.pairs = {<<nodes.returned[i].id, nodes.returned[i].leaf>> :
                                i \in DOMAIN nodes.returned}
            /\ Cardinality(last.pairs) = Len(nodes.returned)

\* The leafs of three inserts, two of them of equal leaves.
C18_Witness ==
    /\ last.op = "leafs"
    /\ Len(nodes.returned) = 3
    /\ Cardinality(last.pairs) = 3
    /\ nodes.returned[1].leaf = nodes.returned[2].leaf
    /\ nodes.returned[3].leaf # nodes.returned[1].leaf

----------------------------------------------------------------------------
(* Properties of the zoom input *)

\* The input of the wheel step being taken is opposite to the front event:
\* the signs are those of f32::signum, so a zero counts with its sign bit.
Reversal ==
    /\ handler.zoom.events # <<>>
    /\ handler.zoom.events[1].event.neg # last'.delta.y.neg

\* What a call of handle_mouse_wheel does to the pending events.
WheelStep ==
    last'.op = "handle_mouse_wheel" =>
        LET old == handler.zoom.events
            new == handler'.zoom.events
        IN /\ Reversal => new = <<>>
           /\ ~Reversal =>
                /\ Len(new) = Len(old) + 1
                /\ SubSeq(new, 1, Len(old)) = old
                /\ new[Len(new)].time = clock'
                /\ new[Len(new)].event.neg = last'.delta.y.neg
                /\ new[Len(new)].event.mag =
                        IF last'.delta.kind = "LineDelta"
                        THEN 10 * last'.delta.y.mag ELSE last'.delta.y.mag
           /\ handler'.zoom.speed = handler.zoom.speed
           /\ handler'.rotating = handler.rotating
           /\ handler'.moving = handler.moving

\* C20: handle_mouse_wheel with pending events and an input whose sign is
\* not the sign of the front event discards every pending event and does not
\* enqueue the input; with no pending event, or an input of the front
\* event's sign, it appends the input with its timestamp at the back and
\* keeps the earlier events.
C20_ReversalStopsZoom == [][WheelStep]_vars

\* Two pending events were discarded by an input of the other sign.
C20_Witness ==
    /\ last.op = "handle_mouse_wheel"
    /\ last.pending = 2
    /\ last.delta.y.mag > 0
    /\ handler.zoom.events = <<>>

\* The age of a pending event at the Instant now, in milliseconds.
Age(e, now) == (now - e.time) * TickMillis

\* The sum of the first n of the events, in tenths.
RECURSIVE Total(_, _)
Total(events, n) ==
    IF n = 0 THEN 0 ELSE Total(events, n - 1) + Value(events[n].event)

\* What a call of update does: the events it leaves are the events within
\* the window, in their order.
UpdateStep ==
    last'.op = "update" =>
        LET old == handler.zoom.events
            new == handler'.zoom.events
            InWindow(e) == Age(e, clock') <= ZOOM_INPUT_WINDOW
        IN /\ new = SelectSeq(old, InWindow)
           /\ \A i \in DOMAIN new : Age(new[i], clock') <= ZOOM_INPUT_WINDOW
           /\ handler'.zoom.speed = Total(new, Len(new))
           /\ last'.after.distance
                = last'.before.distance + handler'.zoom.speed

\* C21: after update(now) no pending event is older than the 500 ms zoom
\* input window, the events within the window are all kept, in order, the
\* zoom speed is the sum of the events that remain and the distance of the
\* caller's transform has grown by that speed.
C21_UpdateDiscardsOldEvents ==
    /\ [][UpdateStep]_vars
    /\ [](last.op = "update" =>
            /\ \A i \in DOMAIN handler.zoom.events :
                    Age(handler.zoom.events[i], clock) <= ZOOM_INPUT_WINDOW
            /\ handler.zoom.speed
                    = Total(handler.zoom.events, Len(handler.zoom.events))
            /\ last.after.distance = last.before.distance + handler.zoom.speed)

\* An update has discarded an event of 750 ms and kept one of 500 ms, and
\* the transform has moved.
C21_Witness ==
    /\ last.op = "update"
    /\ last.pending = 2
    /\ Len(handler.zoom.events) = 1
    /\ Age(handler.zoom.events[1], clock) = ZOOM_INPUT_WINDOW
    /\ handler.zoom.speed # 0
    /\ last.after.distance # last.before.distance

\* C22: whatever the order of the calls of handle_mouse_wheel and update,
\* the pending zoom events all have the same sign, so that no zoom-in event
\* is pending together with a zoom-out event.
C22_PendingEventsShareSign ==
    \A i, j \in DOMAIN handler.zoom.events :
        /\ signum(handler.zoom.events[i].event)
             = signum(handler.zoom.events[j].event)
        /\ ~ /\ Value(handler.zoom.events[i].event) > 0
             /\ Value(handler.zoom.events[j].event) < 0

\* Two zoom-out events are pending after an update that zoomed in: the
\* events of the other direction were dropped at the reversal.
C22_Witness ==
    /\ Len(handler.zoom.events) = 2
    /\ \A i \in 1..2 : Value(handler.zoom.events[i].event) < 0
    /\ handler.zoom.speed > 0

\* The zoom has stopped: nothing is pending and the speed is zero.
Stopped == handler.zoom.events = <<>> /\ handler.zoom.speed = 0

\* The Instant now is more than the zoom input window after the last wheel
\* event (or there was none).
WindowPassed(now) ==
    \A i \in DOMAIN LastWheel :
        (now - LastWheel[i]) * TickMillis > ZOOM_INPUT_WINDOW

\* An update called once the window has passed leaves the zoom stopped and
\* the caller's transform as it was.
QuietUpdate ==
    (last.op = "update" /\ WindowPassed(clock)) =>
        /\ Stopped
        /\ last.after.distance = last.before.distance

\* C23: when the wheel input has ended and update is called frame after
\* frame, the zoom stops for good: an update more than 500 ms after the
\* last wheel event finds the queue empty, sets the speed to 0 and leaves
\* the distance unchanged, and so does every update after it.
C23_ZoomEventuallyStops ==
    /\ []QuietUpdate
    /\ <>[](/\ Stopped
            /\ last.op = "update"
            /\ WindowPassed(clock)
            /\ last.after.distance = last.before.distance)

\* An update more than 500 ms after a wheel event that had set the zoom
\* going has stopped it.
C23_Witness ==
    /\ last.op = "update"
    /\ LastWheel # <<>>
    /\ WindowPassed(clock)
    /\ last.pending > 0
    /\ Stopped

\* The most recent event of the button among the events, if any.
RECURSIVE MostRecent(_, _)
MostRecent(events, button) ==
    IF events = <<>> THEN <<>>
    ELSE IF events[Len(events)].button = button
         THEN <<events[Len(events)].state>>
         ELSE MostRecent(SubSeq(events, 1, Len(events) - 1), button)

\* What one mouse-button event may change.
MouseInputStep ==
    last'.op = "handle_mouse_input" =>
        LET e == last'.given[Len(last'.given)]
        IN /\ e.button = "Left" => handler'.moving = handler.moving
           /\ e.button = "Right" => handler'.rotating = handler.rotating
           /\ e.button \notin {"Left", "Right"} => handler' = handler
           /\ handler'.zoom = handler.zoom

\* C24: after any sequence of mouse-button events on a new Handler,
\* rotating is true exactly when the most recent Left event was Pressed and
\* moving exactly when the most recent Right event was Pressed; a Left
\* event leaves moving as it was, a Right event leaves rotating as it was,
\* and an event of another button leaves both.
C24_ButtonsTrackLastEvent ==
    /\ [](/\ handler.rotating = (MostRecent(last.given, "Left") = <<"Pressed">>)
          /\ handler.moving = (MostRecent(last.given, "Right") = <<"Pressed">>))
    /\ [][MouseInputStep]_vars

\* While rotating and moving, the middle button is released: both go on.
C24_Witness ==
    /\ last.op = "handle_mouse_input"
    /\ Len(last.given) = 3
    /\ last.given[3] = [button |-> "Middle", state |-> "Released"]
    /\ handler.rotating
    /\ handler.moving

----------------------------------------------------------------------------
(* Properties of the partial objects *)

\* The objects reached from the cycle c: half-edge i, its surface vertex j,
\* that vertex's global form, its global edge, and the four global vertices
\* reached from half-edge i (through its surface vertices, then its edge).
FullHE(c, i) == store["Cycle"][c].half_edges[i]

FullSV(c, i, j) == store["HalfEdge"][FullHE(c, i)].surface_vertices[j]

FullGV(c, i, j) == store["SurfaceVertex"][FullSV(c, i, j)].global_form

FullGE(c, i) == store["HalfEdge"][FullHE(c, i)].global_form

FullGVs(c, i) ==
    <<FullGV(c, i, 1), FullGV(c, i, 2),
      store["GlobalEdge"][FullGE(c, i)].vertices[1],
      store["GlobalEdge"][FullGE(c, i)].vertices[2]>>

\* The same for the partial instances reached from the caller's PartialCycle.
PartHE(i) == staging.cycle.half_edges[i]

PartSV(i, j) == staging.partials[PartHE(i)].partial.surface_vertices[j]

PartGV(i, j) == staging.partials[PartSV(i, j)].partial.global_form

PartGE(i) == staging.partials[PartHE(i)].partial.global_form

PartGVs(i) ==
    <<PartGV(i, 1), PartGV(i, 2),
      staging.partials[PartGE(i)].partial.vertices[1],
      staging.partials[PartGE(i)].partial.vertices[2]>>

\* from_full maps one full identity to one partial instance.
FromFullShares ==
    LET src == staging.cycle.source
        n == Len(staging.cycle.half_edges)
    IN src # 0 =>
        /\ n = Len(store["Cycle"][src].half_edges)
        /\ \A i \in 1..n : \A k \in 1..n :
            /\ FullHE(src, i) = FullHE(src, k) => PartHE(i) = PartHE(k)
            /\ FullGE(src, i) = FullGE(src, k) => PartGE(i) = PartGE(k)
            /\ \A j \in 1..2 : \A l \in 1..2 :
                  FullSV(src, i, j) = FullSV(src, k, l) => PartSV(i, j) = PartSV(k, l)
            /\ \A j \in 1..4 : \A l \in 1..4 :
                  FullGVs(src, i)[j] = FullGVs(src, k)[l] => PartGVs(i)[j] = PartGVs(k)[l]

\* build maps one partial instance to one identity of the rebuilt cycle.
BuildShares ==
    LET new == last.handle
        n == Len(staging.cycle.half_edges)
    IN last.op = "BuildCycle" =>
        /\ n = Len(store["Cycle"][new].half_edges)
        /\ \A i \in 1..n : \A k \in 1..n :
            /\ PartHE(i) = PartHE(k) => FullHE(new, i) = FullHE(new, k)
            /\ PartGE(i) = PartGE(k) => FullGE(new, i) = FullGE(new, k)
            /\ \A j \in 1..2 : \A l \in 1..2 :
                  /\ PartSV(i, j) = PartSV(k, l) => FullSV(new, i, j) = FullSV(new, k, l)
                  /\ PartGV(i, j) = PartGV(k, l) => FullGV(new, i, j) = FullGV(new, k, l)
                  /\ PartGV(i, j) \in {PartGVs(k)[3], PartGVs(k)[4]}
                        => FullGV(new, i, j) \in {FullGVs(new, k)[3], FullGVs(new, k)[4]}

\* C9: with one FullToPartialCache, an identity reached through two paths of
\* the source cycle becomes one shared partial instance, and building the
\* partial cycle gives that instance one identity in the rebuilt graph.
C9_RoundTripPreservesSharing ==
    /\ FromFullShares
    /\ BuildShares

\* The end of the first half-edge is the start of the second, before and
\* after the round trip, and a vertex was moved in between.
C9_Witness ==
    /\ last.op = "BuildCycle"
    /\ staging.cycle.source # last.handle
    /\ FullSV(staging.cycle.source, 1, 2) = FullSV(staging.cycle.source, 2, 1)
    /\ PartSV(1, 2) = PartSV(2, 1)
    /\ FullSV(last.handle, 1, 2) = FullSV(last.handle, 2, 1)
    /\ FullSV(last.handle, 1, 2) # FullSV(staging.cycle.source, 1, 2)
    /\ store["GlobalVertex"][FullGV(last.handle, 1, 2)]
            # store["GlobalVertex"][FullGV(staging.cycle.source, 1, 2)]

\* The moment Insert::insert returned the handle h of type ty within a
\* build: the number of objects in the stores right after; 0 for an object
\* that was there before any build.
BuiltAt(ty, h) ==
    IF \E i \in DOMAIN issued[ty] : issued[ty][i].handle = h
    THEN issued[ty][CHOOSE i \in DOMAIN issued[ty] : issued[ty][i].handle = h].at
    ELSE 0

\* Every object a build inserted was inserted after the objects it holds.
ChildrenBeforeParents ==
    \A ty \in Types : \A i \in DOMAIN issued[ty] :
        \A ref \in References(issued[ty][i].content) :
            /\ ref[2] \in Bound(store, ref[1])
            /\ BuiltAt(ref[1], ref[2]) < issued[ty][i].at

\* C19: PartialCycle::build builds the half-edges, and whatever they
\* reference, before the Cycle that holds their handles, and builds them in
\* the order of the sequence; after from_full and build the rebuilt Cycle has
\* as many half-edges as the source, the i-th one rebuilt from the i-th one of
\* the source (same boundary, same surface positions), so the cyclic order
\* is the same.
C19_BuildChildrenFirstInOrder ==
    /\ ChildrenBeforeParents
    /\ last.op = "BuildCycle" =>
        LET new == last.handle
            src == staging.cycle.source
            n == Len(store["Cycle"][new].half_edges)
        IN /\ n = Len(store["Cycle"][src].half_edges)
           /\ n = Len(staging.cycle.half_edges)
           /\ \A i \in 1..n :
                /\ FullHE(new, i) = staging.partials[PartHE(i)].full
                /\ store["HalfEdge"][FullHE(new, i)].boundary
                        = store["HalfEdge"][FullHE(src, i)].boundary
                /\ \A j \in 1..2 :
                        store["SurfaceVertex"][FullSV(new, i, j)].position
                            = store["SurfaceVertex"][FullSV(src, i, j)].position
           /\ \A i \in 1..n : \A k \in 1..n :
                (i < k /\ FullHE(new, i) > last.sizes["HalfEdge"]
                       /\ FullHE(new, k) > last.sizes["HalfEdge"])
                    => FullHE(new, i) < FullHE(new, k)

\* Both half-edges of the cycle were built by this build, the first one
\* first, and the cycle after them.
C19_Witness ==
    /\ last.op = "BuildCycle"
    /\ Len(store["Cycle"][last.handle].half_edges) = 2
    /\ FullHE(last.handle, 1) > last.sizes["HalfEdge"]
    /\ FullHE(last.handle, 2) > FullHE(last.handle, 1)
    /\ store["HalfEdge"][FullHE(last.handle, 1)]
            # store["HalfEdge"][FullHE(last.handle, 2)]
    /\ BuiltAt("Cycle", last.handle) > BuiltAt("HalfEdge", FullHE(last.handle, 2))
    /\ BuiltAt("HalfEdge", FullHE(last.handle, 2))
            > BuiltAt("HalfEdge", FullHE(last.handle, 1))
    /\ BuiltAt("HalfEdge", FullHE(last.handle, 1)) > 0

====
